---- MODULE Spec2Model ----
(***************************************************************************)
(* Model of whispr's audio preprocessing and voice-activity engine          *)
(* (AudioProcessor in src/src/main.cpp, declared in src/unnamed/part_001).  *)
(*                                                                         *)
(* Floats are modelled in fixed point: a float v is the integer v * Unit,   *)
(* rounded to the nearest integer after every multiplication and division. *)
(* Squares that feed an RMS are kept at the double resolution Unit * Unit   *)
(* so that the noise-floor tests (0.001, 0.0001) see the values the code    *)
(* sees.  Sample indices and frame indices are 0-based as in the source;    *)
(* a buffer is a TLA+ sequence, so sample j of the source is audio[j + 1].  *)
(***************************************************************************)
EXTENDS Integers, Sequences, FiniteSets, TLC

VARIABLES
    config_,        \* AudioProcessor::config_
    sample_rate_,   \* AudioProcessor::sample_rate_, in Hz
    b0_, b1_, b2_, a1_, a2_,    \* biquad coefficients
    x1_, x2_, y1_, y2_,         \* biquad history
    gate_env_,      \* noise gate envelope
    input,          \* the buffer as the caller passed it to the last call
    audio,          \* the caller's sample buffer (std::vector<float>) after the call
    stages,         \* the apply_* calls the last process() made, in order
    calls,          \* buffers handed to this instance since the last reset
    cleared,        \* the last step was a reset() that found history or envelope non-zero
    vad,            \* outcome of the last static VAD call (trim_silence / extract_speech)
    op,             \* name of the last operation performed
    state_,         \* App::state_
    enabled_,       \* App::enabled_
    audio_processor_,       \* App::audio_processor_ is non-null
    last_recording_end_,    \* App::last_recording_end_: "epoch" until first set
    recording_,     \* AudioCapture::recording_
    audio_buffer_,  \* AudioCapture::audio_buffer_
    transcription,  \* what the last transcription returned
    starts,         \* AudioCapture::start_recording calls since state_ last left Idle
    earlier         \* a recording before the last one left the registers non-zero

coeffs == <<b0_, b1_, b2_, a1_, a2_>>
history == <<x1_, x2_, y1_, y2_>>
instance == <<config_, sample_rate_, coeffs, history, gate_env_>>
app == <<state_, enabled_, audio_processor_, last_recording_end_, recording_,
        audio_buffer_, transcription, starts, earlier>>
vars == <<instance, input, audio, stages, calls, cleared, vad, op, app>>

-----------------------------------------------------------------------------
(* Fixed-point arithmetic standing for IEEE single precision               *)

Unit == 10 ^ 4

Min(a, b) == IF a < b THEN a ELSE b
Max(a, b) == IF a > b THEN a ELSE b
Abs(a) == IF a < 0 THEN -a ELSE a

\* a / b rounded to the nearest integer, ties away from zero (b > 0)
RDiv(a, b) == IF a >= 0 THEN (2 * a + b) \div (2 * b)
                        ELSE -((2 * (-a) + b) \div (2 * b))

\* float * float
FMul(a, b) == RDiv(a * b, Unit)

\* float / float, b # 0
FDiv(a, b) == IF b > 0 THEN RDiv(a * Unit, b) ELSE -RDiv(a * Unit, -b)

\* largest r in lo..hi with r * r <= n
RECURSIVE SqrtSearch(_, _, _)
SqrtSearch(n, lo, hi) ==
    IF lo >= hi THEN lo
    ELSE LET mid == (lo + hi + 1) \div 2
         IN  IF mid * mid <= n THEN SqrtSearch(n, mid, hi)
                               ELSE SqrtSearch(n, lo, mid - 1)

\* std::sqrt of a value held at resolution Unit * Unit; the result is at Unit
Sqrt(n) == SqrtSearch(n, 0, 46340)

\* sum of audio[j]^2 for lo <= j < hi (0-based), at resolution Unit * Unit
RECURSIVE SumSq(_, _, _)
SumSq(a, lo, hi) ==
    IF lo >= hi THEN 0 ELSE a[lo + 1] * a[lo + 1] + SumSq(a, lo + 1, hi)

\* audio[from, to) as a new vector
Slice(a, from, to) == SubSeq(a, from + 1, to)

-----------------------------------------------------------------------------
(* AudioProcessor::trim_silence                                             *)

Diverges == -1

\* the window's root sum of squares, the mean left out
WindowRms_NoMean(a, lo, hi, window_size) ==
    Sqrt(SumSq(a, lo, Min(hi, Len(a))))

\* the RMS of the analysis window [lo, hi) clipped to the buffer
WindowRms(a, lo, hi, window_size) ==
    Sqrt(SumSq(a, lo, Min(hi, Len(a))) \div window_size)

\* the forward scan backing up by the whole of min_silence_samples
RECURSIVE FindStart_FullMargin(_, _, _, _, _)
FindStart_FullMargin(a, i, window_size, threshold, min_silence_samples) ==
    IF i + window_size > Len(a) THEN 0
    ELSE IF WindowRms(a, i, i + window_size, window_size) > threshold
         THEN IF i > min_silence_samples
              THEN i - min_silence_samples ELSE 0
    ELSE IF window_size \div 2 = 0 THEN Diverges
    ELSE FindStart_FullMargin(a, i + window_size \div 2, window_size, threshold,
                              min_silence_samples)

\* forward scan: start_idx, or Diverges when the loop never ends
RECURSIVE FindStart(_, _, _, _, _)
FindStart(a, i, window_size, threshold, min_silence_samples) ==
    IF i + window_size > Len(a) THEN 0
    ELSE IF WindowRms(a, i, i + window_size, window_size) > threshold
         THEN IF i > min_silence_samples \div 2
              THEN i - min_silence_samples \div 2 ELSE 0
    ELSE IF window_size \div 2 = 0 THEN Diverges
    ELSE FindStart(a, i + window_size \div 2, window_size, threshold,
                   min_silence_samples)

\* the backward scan without the tail it adds for the release
RECURSIVE FindEnd_NoTail(_, _, _, _, _)
FindEnd_NoTail(a, i, window_size, threshold, min_silence_samples) ==
    IF i < window_size THEN Len(a)
    ELSE IF WindowRms(a, i - window_size, i, window_size) > threshold
         THEN i - window_size \div 2
    ELSE IF window_size \div 2 = 0 THEN Diverges
    ELSE FindEnd_NoTail(a, i - window_size \div 2, window_size, threshold,
                        min_silence_samples)

\* backward scan: end_idx, or Diverges when the loop never ends
RECURSIVE FindEnd(_, _, _, _, _)
FindEnd(a, i, window_size, threshold, min_silence_samples) ==
    IF i < window_size THEN Len(a)
    ELSE IF WindowRms(a, i - window_size, i, window_size) > threshold
         THEN Min(i + min_silence_samples \div 2, Len(a))
    ELSE IF window_size \div 2 = 0 THEN Diverges
    ELSE FindEnd(a, i - window_size \div 2, window_size, threshold,
                 min_silence_samples)

\* the sanity check without its 100 ms minimum
TrimRangeOk_NoMinSpan(start_idx, end_idx, sample_rate) ==
    ~(start_idx >= end_idx)

\* the sanity check that decides between the slice and the original buffer
TrimRangeOk(start_idx, end_idx, sample_rate) ==
    ~(start_idx >= end_idx \/ end_idx - start_idx < sample_rate \div 10)

trim_silence(a, threshold, min_silence_samples, sample_rate) ==
    LET window_size == IF sample_rate \div 100 < 1 THEN 1 ELSE sample_rate \div 100
        base == [fn |-> "trim_silence", threshold |-> threshold,
                 min_silence_samples |-> min_silence_samples,
                 sample_rate |-> sample_rate, window_size |-> window_size]
    IN  IF a = <<>>
        THEN base @@ [status |-> "returned", trimmed |-> FALSE,
                      start_idx |-> 0, end_idx |-> 0, out |-> a]
        ELSE LET start_idx == FindStart(a, 0, window_size, threshold,
                                        min_silence_samples)
                 end_idx == FindEnd(a, Len(a), window_size, threshold,
                                    min_silence_samples)
             IN  IF start_idx = Diverges \/ end_idx = Diverges
                 THEN base @@ [status |-> "hang", trimmed |-> FALSE,
                               start_idx |-> 0, end_idx |-> 0, out |-> <<>>]
                 ELSE IF TrimRangeOk(start_idx, end_idx, sample_rate)
                 THEN base @@ [status |-> "returned", trimmed |-> TRUE,
                               start_idx |-> start_idx, end_idx |-> end_idx,
                               out |-> Slice(a, start_idx, end_idx)]
                 ELSE base @@ [status |-> "returned", trimmed |-> FALSE,
                               start_idx |-> start_idx, end_idx |-> end_idx,
                               out |-> a]

-----------------------------------------------------------------------------
(* AudioProcessor::calculate_energy                                         *)

\* number of analysis windows the energy loop visits (hop_size >= 1)
FrameCount(a, window_size, hop_size) ==
    IF Len(a) < window_size THEN 0 ELSE (Len(a) - window_size) \div hop_size + 1

\* the per-window RMS values before smoothing
RawEnergy(a, window_size, hop_size) ==
    [k \in 1 .. FrameCount(a, window_size, hop_size) |->
        Sqrt(SumSq(a, (k - 1) * hop_size, (k - 1) * hop_size + window_size)
             \div window_size)]

RECURSIVE SeqSum(_, _, _)
SeqSum(s, lo, hi) == IF lo > hi THEN 0 ELSE s[lo] + SeqSum(s, lo + 1, hi)

\* centred 5-frame moving average, applied only to more than 3 frames
Smooth(energy) ==
    IF Len(energy) > 3
    THEN [i \in 1 .. Len(energy) |->
            LET lo == Max(i - 2, 1)
                hi == Min(i + 2, Len(energy))
            IN  SeqSum(energy, lo, hi) \div (hi - lo + 1)]
    ELSE energy

calculate_energy(a, window_size, hop_size) ==
    IF a = <<>> \/ window_size <= 0 THEN <<>>
    ELSE Smooth(RawEnergy(a, window_size, hop_size))

-----------------------------------------------------------------------------
(* AudioProcessor::extract_speech                                           *)

\* the length test dropped: every run is kept
KeepRun_Always(speech_start, speech_end, min_speech_frames) == TRUE

\* the length test with > for >=
KeepRun_Strict(speech_start, speech_end, min_speech_frames) ==
    speech_end - speech_start > min_speech_frames

\* the length test a run must pass to be kept
KeepRun(speech_start, speech_end, min_speech_frames) ==
    speech_end - speech_start >= min_speech_frames

\* the test that opens a run on an above-threshold frame
EnterSpeech(in_speech, consecutive_speech) ==
    ~in_speech /\ consecutive_speech >= 2

\* the closing test with a count of 2 for 3
ExitSpeech_AfterTwo(in_speech, consecutive_silence) ==
    in_speech /\ consecutive_silence >= 2

\* the test that closes a run on a below-threshold frame
ExitSpeech(in_speech, consecutive_silence) ==
    in_speech /\ consecutive_silence >= 3

\* the run detector before frame 0; runs, entered and closed record every
\* run the loop delimits and the frames at which in_speech flips
DetectInit ==
    [in_speech |-> FALSE, speech_start |-> 0,
     consecutive_speech |-> 0, consecutive_silence |-> 0,
     segments |-> <<>>, runs |-> <<>>, entered |-> <<>>, closed |-> <<>>]

\* one iteration of the run-detection loop, at frame i (0-based)
DetectStep(st, i, e, threshold, min_speech_frames) ==
    IF e > threshold
    THEN LET cs == st.consecutive_speech + 1
         IN  IF EnterSpeech(st.in_speech, cs)
             THEN [st EXCEPT !.consecutive_speech = cs,
                             !.consecutive_silence = 0,
                             !.in_speech = TRUE,
                             !.speech_start = IF i > 1 THEN i - 1 ELSE 0,
                             !.entered = Append(@, i)]
             ELSE [st EXCEPT !.consecutive_speech = cs,
                             !.consecutive_silence = 0]
    ELSE LET sil == st.consecutive_silence + 1
         IN  IF ExitSpeech(st.in_speech, sil)
             THEN LET run == [start |-> st.speech_start, end |-> i]
                  IN  [st EXCEPT !.consecutive_silence = sil,
                                 !.in_speech = FALSE,
                                 !.runs = Append(@, run),
                                 !.segments =
                                     IF KeepRun(run.start, run.end, min_speech_frames)
                                     THEN Append(@, run) ELSE @,
                                 !.consecutive_speech = 0,
                                 !.closed = Append(@, i)]
             ELSE [st EXCEPT !.consecutive_silence = sil]

RECURSIVE DetectLoop(_, _, _, _, _)
DetectLoop(st, i, energy, threshold, min_speech_frames) ==
    IF i >= Len(energy) THEN st
    ELSE LET next == DetectStep(st, i, energy[i + 1], threshold, min_speech_frames)
         IN  IF next.in_speech \in BOOLEAN   \* the iteration is complete before the next
             THEN DetectLoop(next, i + 1, energy, threshold, min_speech_frames)
             ELSE next

\* a run still open after the last frame ends at energy.size()
DetectTail(st, frames, min_speech_frames) ==
    IF st.in_speech
    THEN LET run == [start |-> st.speech_start, end |-> frames]
         IN  [st EXCEPT !.runs = Append(@, run),
                        !.segments =
                            IF KeepRun(run.start, run.end, min_speech_frames)
                            THEN Append(@, run) ELSE @]
    ELSE st

DetectRuns(energy, threshold, min_speech_frames) ==
    DetectTail(DetectLoop(DetectInit, 0, energy, threshold, min_speech_frames),
               Len(energy), min_speech_frames)

\* the padding without the clamp at the end of the envelope
PadSegment_Unclamped(seg, padding_frames, frames) ==
    [start |-> IF seg.start > padding_frames THEN seg.start - padding_frames ELSE 0,
     end |-> seg.end + padding_frames]

\* a kept segment widened by the padding and clamped to the envelope
PadSegment(seg, padding_frames, frames) ==
    [start |-> IF seg.start > padding_frames THEN seg.start - padding_frames ELSE 0,
     end |-> Min(seg.end + padding_frames, frames)]

\* the merge test that absorbs every later segment
MergesWithBack_Always(merged, padded_start) == merged # <<>>

\* the merge test with < for <=
MergesWithBack_Strict(merged, padded_start) ==
    merged # <<>> /\ padded_start < merged[Len(merged)].end

\* the test that absorbs a padded segment into the previous merged one
MergesWithBack(merged, padded_start) ==
    merged # <<>> /\ padded_start <= merged[Len(merged)].end

RECURSIVE MergeSegments(_, _, _, _, _)
MergeSegments(segments, k, merged, padding_frames, frames) ==
    IF k > Len(segments) THEN merged
    ELSE LET p == PadSegment(segments[k], padding_frames, frames)
         IN  MergeSegments(segments, k + 1,
                 IF MergesWithBack(merged, p.start)
                 THEN [merged EXCEPT ![Len(merged)].end = p.end]
                 ELSE Append(merged, p),
                 padding_frames, frames)

\* the sample range copied for one merged segment
SampleRange(seg, hop_size, window_size, size) ==
    [from |-> seg.start * hop_size,
     to |-> Min(seg.end * hop_size + window_size, size)]

RECURSIVE Concat(_, _, _)
Concat(a, ranges, k) ==
    IF k > Len(ranges) THEN <<>>
    ELSE Slice(a, ranges[k].from, ranges[k].to) \o Concat(a, ranges, k + 1)

\* extract_speech once hop_size >= 1 or the envelope is empty
extract_speech(a, threshold, min_speech_ms, padding_ms, sample_rate) ==
    LET window_size == sample_rate \div 100
        hop_size == sample_rate \div 200
        base == [fn |-> "extract_speech", threshold |-> threshold,
                 min_speech_ms |-> min_speech_ms, padding_ms |-> padding_ms,
                 sample_rate |-> sample_rate, window_size |-> window_size,
                 hop_size |-> hop_size, status |-> "returned"]
        none == [energy |-> <<>>, min_speech_frames |-> 0, padding_frames |-> 0,
                 runs |-> <<>>, entered |-> <<>>, closed |-> <<>>,
                 segments |-> <<>>, merged |-> <<>>, ranges |-> <<>>]
    IN  IF a = <<>> THEN base @@ none @@ [out |-> a]
        ELSE LET energy == calculate_energy(a, window_size, hop_size)
             IN  IF energy = <<>> THEN base @@ none @@ [out |-> a]
                 ELSE
        LET min_speech_frames == (min_speech_ms * sample_rate) \div (1000 * hop_size)
            padding_frames == (padding_ms * sample_rate) \div (1000 * hop_size)
            det == DetectRuns(energy, threshold, min_speech_frames)
            found == [energy |-> energy, min_speech_frames |-> min_speech_frames,
                      padding_frames |-> padding_frames, runs |-> det.runs,
                      entered |-> det.entered, closed |-> det.closed,
                      segments |-> det.segments]
        IN  IF det.segments = <<>>
            THEN base @@ found @@ [merged |-> <<>>, ranges |-> <<>>, out |-> a]
            ELSE LET merged == MergeSegments(det.segments, 1, <<>>,
                                             padding_frames, Len(energy))
                     ranges == [k \in 1 .. Len(merged) |->
                                   SampleRange(merged[k], hop_size, window_size, Len(a))]
                     result == Concat(a, ranges, 1)
                 IN  base @@ found @@
                     [merged |-> merged, ranges |-> ranges,
                      out |-> IF result = <<>> THEN a ELSE result]

\* calculate_energy divides by hop_size; with a non-empty buffer, a positive
\* window and hop_size = 0 that division is undefined and the loop that
\* follows never advances, so the call ends in a trap or never ends
ExtractUndefined(a, sample_rate) ==
    a # <<>> /\ sample_rate \div 100 > 0 /\ sample_rate \div 200 = 0

UndefinedOutcomes == {"crash", "hang"}

-----------------------------------------------------------------------------
(* AudioProcessorConfig and the biquad design                               *)

\* the fields of AudioProcessorConfig declared in the header; times are in
\* seconds and amplitudes are floats (at Unit), the cutoff is in Hz
HeaderDefaults ==
    [enable_highpass |-> TRUE, highpass_freq |-> 80,
     enable_noise_gate |-> TRUE, noise_gate_threshold |-> 200,
     noise_gate_attack |-> 10, noise_gate_release |-> 500,
     enable_normalization |-> TRUE, target_peak |-> 9000]

\* the AGC fields that apply_agc and process read
AgcDefaults ==
    [enable_agc |-> TRUE, agc_target_rms |-> 1500,
     agc_min_gain |-> 1000, agc_max_gain |-> 100000]

DefaultConfig == HeaderDefaults @@ AgcDefaults

Pi == 31416     \* M_PI
ButterworthQ == 7070    \* 0.707f

\* std::cos and std::sin by their Taylor polynomials (omega is well below 1)
Cos(w) ==
    LET w2 == FMul(w, w)
    IN  Unit - RDiv(w2, 2) + RDiv(FMul(w2, w2), 24)
Sin(w) ==
    LET w2 == FMul(w, w)
        w3 == FMul(w2, w)
    IN  w - RDiv(w3, 6) + RDiv(FMul(w3, w2), 120)

\* the five coefficients design_highpass_filter stores
design_highpass_filter(highpass_freq, sample_rate) ==
    LET omega == RDiv(2 * Pi * highpass_freq, sample_rate)
        cos_omega == Cos(omega)
        sin_omega == Sin(omega)
        alpha == FDiv(sin_omega, FMul(2 * Unit, ButterworthQ))
        a0 == Unit + alpha
    IN  [b0 |-> FDiv(RDiv(Unit + cos_omega, 2), a0),
         b1 |-> -FDiv(Unit + cos_omega, a0),
         b2 |-> FDiv(RDiv(Unit + cos_omega, 2), a0),
         a1 |-> FDiv(FMul(-2 * Unit, cos_omega), a0),
         a2 |-> FDiv(Unit - alpha, a0)]

-----------------------------------------------------------------------------
(* The stages                                                               *)

\* one sample through the biquad: the output and the shifted history
HighpassSample(co, h, x0) ==
    LET y0 == FMul(co.b0, x0) + FMul(co.b1, h.x1) + FMul(co.b2, h.x2)
              - FMul(co.a1, h.y1) - FMul(co.a2, h.y2)
    IN  [y |-> y0, h |-> [x1 |-> x0, x2 |-> h.x1, y1 |-> y0, y2 |-> h.y1]]

RECURSIVE HighpassLoop(_, _, _, _, _)
HighpassLoop(co, h, a, i, out) ==
    IF i > Len(a) THEN [audio |-> out, h |-> h]
    ELSE LET r == HighpassSample(co, h, a[i])
         IN  HighpassLoop(co, r.h, a, i + 1, Append(out, r.y))

\* the biquad starting every buffer from a zero history
apply_highpass_FreshStart(co, h, a) ==
    HighpassLoop(co, [x1 |-> 0, x2 |-> 0, y1 |-> 0, y2 |-> 0], a, 1, <<>>)

apply_highpass(co, h, a) == HighpassLoop(co, h, a, 1, <<>>)

\* std::exp(-x) for x >= 0: Taylor polynomial below 1/2, squaring above
RECURSIVE ExpNeg(_)
ExpNeg(x) ==
    IF x >= 12 * Unit THEN 0
    ELSE IF x > Unit \div 2
    THEN LET half == ExpNeg(x \div 2)
         IN  FMul(FMul(half, half), ExpNeg(x - 2 * (x \div 2)))
    ELSE LET x2 == FMul(x, x)
             x3 == FMul(x2, x)
         IN  Unit - x + RDiv(x2, 2) - RDiv(x3, 6) + RDiv(FMul(x3, x), 24)

\* 1 - exp(-1 / (seconds * sample_rate)); a zero time constant divides by
\* zero, giving exp(-inf) = 0
GateCoef(seconds, sample_rate) ==
    IF seconds * sample_rate = 0 THEN Unit
    ELSE Unit - ExpNeg(RDiv(Unit * Unit, seconds * sample_rate))

\* the release branch without the envelope it relaxes from
GateEnvelope_NoBase(env, abs_sample, attack_coef, release_coef) ==
    IF abs_sample > env
    THEN env + FMul(attack_coef, abs_sample - env)
    ELSE FMul(release_coef, abs_sample - env)

\* the envelope follower's update for one sample
GateEnvelope(env, abs_sample, attack_coef, release_coef) ==
    IF abs_sample > env
    THEN env + FMul(attack_coef, abs_sample - env)
    ELSE env + FMul(release_coef, abs_sample - env)

\* the gate's factor with its sign turned
GateSample_Flipped(sample, env, threshold) ==
    IF env < threshold
    THEN LET ratio == FDiv(env, threshold)
         IN  -FMul(sample, FMul(ratio, ratio))
    ELSE sample

\* a linear knee in place of the quadratic one
GateSample_Linear(sample, env, threshold) ==
    IF env < threshold THEN FMul(sample, FDiv(env, threshold)) ELSE sample

\* the gated sample, given the envelope already updated from it
GateSample(sample, env, threshold) ==
    IF env < threshold
    THEN LET ratio == FDiv(env, threshold)
         IN  FMul(sample, FMul(ratio, ratio))
    ELSE sample

RECURSIVE GateLoop(_, _, _, _, _, _, _)
GateLoop(a, i, env, attack_coef, release_coef, threshold, out) ==
    IF i > Len(a) THEN [audio |-> out, env |-> env]
    ELSE LET e == GateEnvelope(env, Abs(a[i]), attack_coef, release_coef)
         IN  GateLoop(a, i + 1, e, attack_coef, release_coef, threshold,
                      Append(out, GateSample(a[i], e, threshold)))

apply_noise_gate(cfg, sample_rate, env, a) ==
    GateLoop(a, 1, env,
             GateCoef(cfg.noise_gate_attack, sample_rate),
             GateCoef(cfg.noise_gate_release, sample_rate),
             cfg.noise_gate_threshold, <<>>)

\* the peak search without std::abs
RECURSIVE Peak_Signed(_, _)
Peak_Signed(a, i) ==
    IF i > Len(a) THEN 0 ELSE Max(a[i], Peak_Signed(a, i + 1))

RECURSIVE Peak(_, _)
Peak(a, i) ==
    IF i > Len(a) THEN 0 ELSE Max(Abs(a[i]), Peak(a, i + 1))

PeakFloor == 10         \* 0.001f
MaxNormGain == 100000   \* 10.0f

\* the clamp left out
Clamp_None(sample) == sample

\* the hard clamp to [-1, 1]
Clamp(sample) ==
    IF sample > Unit THEN Unit ELSE IF sample < -Unit THEN -Unit ELSE sample

\* normalization without the cap on the gain
apply_normalization_NoCap(cfg, a) ==
    IF a = <<>> THEN a
    ELSE LET peak == Peak(a, 1)
         IN  IF peak < PeakFloor THEN a
             ELSE [i \in 1 .. Len(a) |-> Clamp(FMul(a[i], FDiv(cfg.target_peak, peak)))]

apply_normalization(cfg, a) ==
    IF a = <<>> THEN a
    ELSE LET peak == Peak(a, 1)
         IN  IF peak < PeakFloor THEN a
             ELSE LET gain == Min(FDiv(cfg.target_peak, peak), MaxNormGain)
                  IN  [i \in 1 .. Len(a) |-> Clamp(FMul(a[i], gain))]

RmsFloor == 1           \* 0.0001f
Knee == 9000            \* 0.9f

\* std::tanh at multiples of 1/4 up to 5.25, at Unit
TanhTable ==
    <<0, 2449, 4621, 6351, 7616, 8483, 9051, 9414, 9640, 9780, 9866,
      9919, 9951, 9970, 9982, 9989, 9993, 9996, 9998, 9999, 9999, 9999>>

\* std::tanh: odd, interpolated between the table's points, 1 beyond them
Tanh(x) ==
    LET ax == Abs(x)
        k == ax \div 2500
        t == IF k >= 21 THEN Unit
             ELSE TanhTable[k + 1]
                  + ((TanhTable[k + 2] - TanhTable[k + 1]) * (ax - 2500 * k)) \div 2500
    IN  IF x < 0 THEN -t ELSE t

\* the soft clipper left out
SoftClip_None(sample) == sample

\* the soft clipper applied to a sample after the gain
SoftClip(sample) ==
    IF Abs(sample) > Knee THEN FMul(Knee, Tanh(FDiv(sample, Knee))) ELSE sample

\* the RMS of the whole buffer
BufferRms(a) == Sqrt(SumSq(a, 0, Len(a)) \div Len(a))

\* the gain with the two limits exchanged
AgcGain_SwappedClamp(cfg, rms) ==
    Min(cfg.agc_min_gain, Max(FDiv(cfg.agc_target_rms, rms), cfg.agc_max_gain))

\* the gain apply_agc uses, clamped to the configured limits
AgcGain(cfg, rms) ==
    Max(cfg.agc_min_gain, Min(FDiv(cfg.agc_target_rms, rms), cfg.agc_max_gain))

apply_agc(cfg, a) ==
    IF a = <<>> THEN a
    ELSE LET rms == BufferRms(a)
         IN  IF rms < RmsFloor THEN a
             ELSE [i \in 1 .. Len(a) |-> SoftClip(FMul(a[i], AgcGain(cfg, rms)))]

-----------------------------------------------------------------------------
(* AudioProcessor::process and AudioProcessor::reset                        *)

\* the four guarded stage calls of process(); st carries the buffer, the
\* biquad history, the envelope and the log of apply_* calls made so far
HighpassStage(cfg, co, st) ==
    IF cfg.enable_highpass
    THEN LET r == apply_highpass(co, st.h, st.audio)
         IN  [st EXCEPT !.audio = r.audio, !.h = r.h,
                        !.log = Append(@, "highpass")]
    ELSE st

NoiseGateStage(cfg, sample_rate, st) ==
    IF cfg.enable_noise_gate
    THEN LET r == apply_noise_gate(cfg, sample_rate, st.env, st.audio)
         IN  [st EXCEPT !.audio = r.audio, !.env = r.env,
                        !.log = Append(@, "noise_gate")]
    ELSE st

AgcStage(cfg, st) ==
    IF cfg.enable_agc
    THEN [st EXCEPT !.audio = apply_agc(cfg, @), !.log = Append(@, "agc")]
    ELSE st

NormalizationStage(cfg, st) ==
    IF cfg.enable_normalization
    THEN [st EXCEPT !.audio = apply_normalization(cfg, @),
                    !.log = Append(@, "normalization")]
    ELSE st

\* process() with normalization moved ahead of the AGC
ProcessStages_NormFirst(cfg, sample_rate, co, st) ==
    AgcStage(cfg,
        NormalizationStage(cfg,
            NoiseGateStage(cfg, sample_rate,
                HighpassStage(cfg, co, st))))

\* process() on a non-empty buffer: the stages in the order the code runs them
ProcessStages(cfg, sample_rate, co, st) ==
    NormalizationStage(cfg,
        AgcStage(cfg,
            NoiseGateStage(cfg, sample_rate,
                HighpassStage(cfg, co, st))))

\* process() clearing the registers when handed an empty buffer
process_EmptyClears(cfg, sample_rate, co, h, env, a) ==
    IF a = <<>>
    THEN [audio |-> a, h |-> [x1 |-> 0, x2 |-> 0, y1 |-> 0, y2 |-> 0],
          env |-> 0, log |-> <<>>]
    ELSE ProcessStages(cfg, sample_rate, co,
                       [audio |-> a, h |-> h, env |-> env, log |-> <<>>])

process(cfg, sample_rate, co, h, env, a) ==
    LET st == [audio |-> a, h |-> h, env |-> env, log |-> <<>>]
    IN  IF a = <<>> THEN st ELSE ProcessStages(cfg, sample_rate, co, st)

\* reset() that forgets the gate envelope
reset_KeepsEnvelope(cfg, sample_rate) ==
    [h |-> [x1 |-> 0, x2 |-> 0, y1 |-> 0, y2 |-> 0],
     env |-> gate_env_,
     co |-> design_highpass_filter(cfg.highpass_freq, sample_rate)]

\* the registers reset() leaves: zero history, zero envelope, coefficients
\* designed from the current cutoff and sample rate
reset(cfg, sample_rate) ==
    [h |-> [x1 |-> 0, x2 |-> 0, y1 |-> 0, y2 |-> 0],
     env |-> 0,
     co |-> design_highpass_filter(cfg.highpass_freq, sample_rate)]

-----------------------------------------------------------------------------
(* One AudioProcessor instance and the calls made on it                     *)

MaxBuf == 2     \* longest buffer handed to the instance
MaxCalls == 2   \* buffers handed to the instance between two resets

Samples == {0, 1, -3000, 10000}

RECURSIVE SeqsUpTo(_)
SeqsUpTo(n) ==
    IF n = 0 THEN {<<>>}
    ELSE LET shorter == SeqsUpTo(n - 1)
         IN  shorter \cup { Append(q, v) : q \in { r \in shorter : Len(r) = n - 1 },
                                           v \in Samples }

Buffers == SeqsUpTo(MaxBuf)

\* a second parameter set: a louder AGC target, a peak target above full
\* scale, a higher cutoff and an instantaneous gate attack
AltParams ==
    [DefaultConfig EXCEPT !.highpass_freq = 200, !.noise_gate_attack = 0,
                          !.target_peak = 12000, !.agc_target_rms = 7000]

Configs ==
    { [c EXCEPT !.enable_highpass = h, !.enable_noise_gate = g,
                !.enable_agc = a, !.enable_normalization = n] :
        c \in {DefaultConfig, AltParams}, h \in BOOLEAN, g \in BOOLEAN,
        a \in BOOLEAN, n \in BOOLEAN }

InstanceRates == {16000}

\* no VAD result is held
NoCall == [fn |-> "none", status |-> "none"]

Coefs == [b0 |-> b0_, b1 |-> b1_, b2 |-> b2_, a1 |-> a1_, a2 |-> a2_]
Hist == [x1 |-> x1_, x2 |-> x2_, y1 |-> y1_, y2 |-> y2_]

\* the registers the constructors leave: the member initialisers zero the
\* history and the envelope, the body designs the filter
Constructed(cfg, sample_rate) ==
    [h |-> [x1 |-> 0, x2 |-> 0, y1 |-> 0, y2 |-> 0],
     env |-> 0,
     co |-> design_highpass_filter(cfg.highpass_freq, sample_rate)]

SetCoefs(co) ==
    /\ b0_' = co.b0 /\ b1_' = co.b1 /\ b2_' = co.b2
    /\ a1_' = co.a1 /\ a2_' = co.a2

SetHist(h) ==
    /\ x1_' = h.x1 /\ x2_' = h.x2 /\ y1_' = h.y1 /\ y2_' = h.y2

\* App after initialize() with audio_preprocessing on: Idle, hotkey enabled,
\* nothing captured yet
AppConstructed ==
    /\ state_ = "Idle"
    /\ enabled_ = TRUE
    /\ audio_processor_ = TRUE
    /\ last_recording_end_ = "epoch"
    /\ recording_ = FALSE
    /\ audio_buffer_ = <<>>
    /\ transcription = "none"
    /\ starts = 0
    /\ earlier = FALSE

Init ==
    /\ config_ \in Configs
    /\ sample_rate_ \in InstanceRates
    /\ LET r == Constructed(config_, sample_rate_)
       IN  /\ b0_ = r.co.b0 /\ b1_ = r.co.b1 /\ b2_ = r.co.b2
           /\ a1_ = r.co.a1 /\ a2_ = r.co.a2
           /\ x1_ = r.h.x1 /\ x2_ = r.h.x2 /\ y1_ = r.h.y1 /\ y2_ = r.h.y2
           /\ gate_env_ = r.env
    /\ input = <<>>
    /\ audio = <<>>
    /\ stages = <<>>
    /\ calls = 0
    /\ cleared = FALSE
    /\ vad = NoCall
    /\ op = "construct"
    /\ AppConstructed

Process(buf) ==
    /\ calls < MaxCalls
    /\ LET r == process(config_, sample_rate_, Coefs, Hist, gate_env_, buf)
       IN  /\ audio' = r.audio
           /\ SetHist(r.h)
           /\ gate_env_' = r.env
           /\ stages' = r.log
    /\ input' = buf
    /\ calls' = calls + 1
    /\ cleared' = FALSE
    /\ op' = "process"
    /\ UNCHANGED <<config_, sample_rate_, coeffs, vad, app>>

ApplyHighpass(buf) ==
    /\ calls < MaxCalls
    /\ LET r == apply_highpass(Coefs, Hist, buf)
       IN  audio' = r.audio /\ SetHist(r.h)
    /\ input' = buf
    /\ calls' = calls + 1
    /\ cleared' = FALSE
    /\ op' = "apply_highpass"
    /\ UNCHANGED <<config_, sample_rate_, coeffs, gate_env_, stages, vad, app>>

ApplyNoiseGate(buf) ==
    /\ calls < MaxCalls
    /\ LET r == apply_noise_gate(config_, sample_rate_, gate_env_, buf)
       IN  audio' = r.audio /\ gate_env_' = r.env
    /\ input' = buf
    /\ calls' = calls + 1
    /\ cleared' = FALSE
    /\ op' = "apply_noise_gate"
    /\ UNCHANGED <<config_, sample_rate_, coeffs, history, stages, vad, app>>

ApplyNormalization(buf) ==
    /\ calls < MaxCalls
    /\ audio' = apply_normalization(config_, buf)
    /\ input' = buf
    /\ calls' = calls + 1
    /\ cleared' = FALSE
    /\ op' = "apply_normalization"
    /\ UNCHANGED <<instance, stages, vad, app>>

ApplyAgc(buf) ==
    /\ calls < MaxCalls
    /\ audio' = apply_agc(config_, buf)
    /\ input' = buf
    /\ calls' = calls + 1
    /\ cleared' = FALSE
    /\ op' = "apply_agc"
    /\ UNCHANGED <<instance, stages, vad, app>>

\* reset(), called between recordings: the caller's previous buffer is gone
Reset ==
    /\ LET r == reset(config_, sample_rate_)
       IN  SetHist(r.h) /\ gate_env_' = r.env /\ SetCoefs(r.co)
    /\ input' = <<>> /\ audio' = <<>> /\ stages' = <<>>
    /\ calls' = 0
    /\ cleared' = (<<x1_, x2_, y1_, y2_, gate_env_>> # <<0, 0, 0, 0, 0>>)
    /\ op' = "reset"
    /\ UNCHANGED <<config_, sample_rate_, vad, app>>

\* set_config(config): config_ = config; reset();
SetConfig(cfg) ==
    /\ config_' = cfg
    /\ LET r == reset(cfg, sample_rate_)
       IN  SetHist(r.h) /\ gate_env_' = r.env /\ SetCoefs(r.co)
    /\ input' = <<>> /\ audio' = <<>> /\ stages' = <<>>
    /\ calls' = 0
    /\ cleared' = (<<x1_, x2_, y1_, y2_, gate_env_>> # <<0, 0, 0, 0, 0>>)
    /\ op' = "set_config"
    /\ UNCHANGED <<sample_rate_, vad, app>>

ProcessCall == \E buf \in Buffers : Process(buf)
HighpassCall == \E buf \in Buffers : ApplyHighpass(buf)
NoiseGateCall == \E buf \in Buffers : ApplyNoiseGate(buf)
NormalizationCall == \E buf \in Buffers : ApplyNormalization(buf)
AgcCall == \E buf \in Buffers : ApplyAgc(buf)
SetConfigCall == \E cfg \in {DefaultConfig, AltParams} : SetConfig(cfg)

Next ==
    \/ ProcessCall
    \/ HighpassCall
    \/ NoiseGateCall
    \/ NormalizationCall
    \/ AgcCall
    \/ Reset
    \/ SetConfigCall

Spec == Init /\ [][Next]_vars

-----------------------------------------------------------------------------
(* Claims about the instance, checked under Spec                            *)

StageOrder == <<"highpass", "noise_gate", "agc", "normalization">>

StageEnabled(cfg, name) ==
    CASE name = "highpass" -> cfg.enable_highpass
      [] name = "noise_gate" -> cfg.enable_noise_gate
      [] name = "agc" -> cfg.enable_agc
      [] name = "normalization" -> cfg.enable_normalization

\* C3: process() applies its enabled stages in the order high-pass, noise
\* gate, AGC, peak normalization, each at most once; a disabled stage is not
\* applied and changes neither the buffer nor the filter and gate registers
C3_StagesInOrder ==
    [][ (op' = "process" /\ input' # <<>>) =>
          LET On(name) == StageEnabled(config_, name)
              hp == IF config_.enable_highpass
                    THEN apply_highpass(Coefs, Hist, input').audio ELSE input'
              ng == IF config_.enable_noise_gate
                    THEN apply_noise_gate(config_, sample_rate_, gate_env_, hp).audio
                    ELSE hp
              ag == IF config_.enable_agc THEN apply_agc(config_, ng) ELSE ng
              nm == IF config_.enable_normalization
                    THEN apply_normalization(config_, ag) ELSE ag
          IN  /\ stages' = SelectSeq(StageOrder, On)
              /\ audio' = nm
              /\ ~config_.enable_highpass => UNCHANGED history
              /\ ~config_.enable_noise_gate => UNCHANGED gate_env_
              /\ UNCHANGED <<coeffs, config_, sample_rate_>> ]_vars

\* process() ran the AGC and the normalization, not the other two, and
\* changed the buffer
C3_Witness ==
    /\ op = "process"
    /\ stages = <<"agc", "normalization">>
    /\ audio # input
    /\ calls = 2

\* C8: after apply_normalization, and after process() whenever normalization
\* is enabled, every sample lies in [-1, 1]
C8_NormalizedInRange ==
    (op = "apply_normalization" \/ (op = "process" /\ config_.enable_normalization)) =>
        \A i \in 1 .. Len(audio) : -Unit <= audio[i] /\ audio[i] <= Unit

\* the gain took a sample to the ceiling
C8_Witness ==
    /\ op \in {"apply_normalization", "process"}
    /\ config_.enable_normalization
    /\ config_.target_peak > Unit
    /\ \E i \in 1 .. Len(audio) : Abs(audio[i]) = Unit /\ Abs(input[i]) < Unit

\* C9: after apply_agc no sample exceeds 1.0 in magnitude: when the stage is
\* applied (RMS >= 0.0001) every sample is at most 0.9 in magnitude, and a
\* skipped buffer is left as it was
C9_AgcBounded ==
    op = "apply_agc" =>
        /\ \A i \in 1 .. Len(audio) : Abs(audio[i]) <= Unit
        /\ IF input # <<>> /\ BufferRms(input) >= RmsFloor
           THEN \A i \in 1 .. Len(audio) : Abs(audio[i]) <= Knee
           ELSE audio = input

\* the gain alone would have taken a sample past the knee
C9_Witness ==
    /\ op = "apply_agc"
    /\ input # <<>>
    /\ BufferRms(input) >= RmsFloor
    /\ \E i \in 1 .. Len(input) :
           Abs(FMul(input[i], AgcGain(config_, BufferRms(input)))) > Knee

\* a non-silent buffer too quiet for the AGC came back as it was
C9_SkipReached ==
    /\ op = "apply_agc"
    /\ input # <<>>
    /\ BufferRms(input) < RmsFloor
    /\ \E i \in 1 .. Len(input) : input[i] # 0

\* C10: after reset() the instance is a freshly constructed one with the same
\* sample rate and configuration: history and envelope are zero, the
\* coefficients are those of the current cutoff and sample rate, and
\* process() then yields what it yields on the fresh instance
C10_ResetIsFresh ==
    op \in {"reset", "set_config"} =>
        LET fresh == Constructed(config_, sample_rate_)
        IN  /\ Hist = [x1 |-> 0, x2 |-> 0, y1 |-> 0, y2 |-> 0]
            /\ gate_env_ = 0
            /\ Coefs = fresh.co
            /\ \A buf \in Buffers :
                   process(config_, sample_rate_, Coefs, Hist, gate_env_, buf)
                       = process(config_, sample_rate_, fresh.co, fresh.h, fresh.env, buf)

\* a reset() cleared registers that earlier buffers had left non-zero
C10_Witness ==
    /\ op = "reset"
    /\ cleared
    /\ <<x1_, x2_, y1_, y2_, gate_env_>> = <<0, 0, 0, 0, 0>>

\* C11: the gate envelope register is non-negative in every reachable state
C11_EnvelopeNonNegative == gate_env_ >= 0

\* the envelope rose on one buffer and was relaxing, still positive, at the
\* end of the next
C11_Witness ==
    /\ op = "apply_noise_gate"
    /\ calls = 2
    /\ input # <<>>
    /\ input[Len(input)] = 0
    /\ gate_env_ > 0

\* the envelope after each of the first k samples of buf, starting from env
RECURSIVE EnvelopeAfter(_, _, _, _, _)
EnvelopeAfter(buf, k, env, attack_coef, release_coef) ==
    IF k = 0 THEN env
    ELSE GateEnvelope(EnvelopeAfter(buf, k - 1, env, attack_coef, release_coef),
                      Abs(buf[k]), attack_coef, release_coef)

\* C12: apply_noise_gate updates the envelope from each sample first, then
\* multiplies the sample by (envelope / threshold)^2 if the updated envelope
\* is below the threshold and leaves it exactly as it was otherwise
C12_GateAfterEnvelopeUpdate ==
    [][ op' = "apply_noise_gate" =>
          LET attack_coef == GateCoef(config_.noise_gate_attack, sample_rate_)
              release_coef == GateCoef(config_.noise_gate_release, sample_rate_)
              threshold == config_.noise_gate_threshold
              Env(k) == EnvelopeAfter(input', k, gate_env_, attack_coef, release_coef)
          IN  /\ Len(audio') = Len(input')
              /\ gate_env_' = Env(Len(input'))
              /\ \A k \in 1 .. Len(input') :
                     IF Env(k) < threshold
                     THEN LET ratio == FDiv(Env(k), threshold)
                          IN  audio'[k] = FMul(input'[k], FMul(ratio, ratio))
                     ELSE audio'[k] = input'[k] ]_vars

\* the gate attenuated one sample without muting it and passed a later one
C12_Witness ==
    /\ op = "apply_noise_gate"
    /\ Len(input) = 2
    /\ audio[1] # input[1] /\ audio[1] # 0
    /\ audio[2] = input[2] /\ input[2] # 0
    /\ gate_env_ >= config_.noise_gate_threshold

\* C22: degenerate inputs are skipped without effect: process() on an empty
\* buffer runs no stage and changes neither the buffer nor the filter
\* history nor the gate envelope; apply_normalization on a peak below 0.001
\* and apply_agc on an RMS below 0.0001 (or an empty buffer) leave every
\* sample as it was
C22_DegenerateSkipped ==
    [][ /\ (op' = "process" /\ input' = <<>>) =>
              /\ audio' = <<>>
              /\ stages' = <<>>
              /\ UNCHANGED <<config_, sample_rate_, coeffs, history, gate_env_>>
        /\ (op' = "apply_normalization" /\ Peak(input', 1) < PeakFloor) =>
              /\ audio' = input'
              /\ UNCHANGED instance
        /\ (op' = "apply_agc"
               /\ (input' = <<>> \/ SumSq(input', 0, Len(input')) < Len(input'))) =>
              /\ audio' = input'
              /\ UNCHANGED instance ]_vars

\* process() was handed an empty buffer while the history and the envelope
\* held what an earlier buffer had left
C22_Witness ==
    /\ op = "process"
    /\ input = <<>>
    /\ calls = 2
    /\ gate_env_ > 0
    /\ x1_ # 0
    /\ y1_ # 0

\* C25: without a reset in between, apply_highpass on buffer A and then on
\* buffer B yields the samples of one call on A followed by B, and leaves
\* the registers that call leaves; likewise apply_noise_gate
C25_ContinuousAcrossCalls ==
    [][ /\ (op = "apply_highpass" /\ op' = "apply_highpass" /\ calls = 1) =>
              LET zero == [x1 |-> 0, x2 |-> 0, y1 |-> 0, y2 |-> 0]
                  once == apply_highpass(Coefs, zero, input \o input')
              IN  /\ audio \o audio' = once.audio
                  /\ <<x1_', x2_', y1_', y2_'>>
                         = <<once.h.x1, once.h.x2, once.h.y1, once.h.y2>>
        /\ (op = "apply_noise_gate" /\ op' = "apply_noise_gate" /\ calls = 1) =>
              LET once == apply_noise_gate(config_, sample_rate_, 0, input \o input')
              IN  /\ audio \o audio' = once.audio
                  /\ gate_env_' = once.env ]_vars

\* a second apply_highpass call gave samples a fresh filter would not have
\* given, no process() having touched the history
C25_Witness ==
    /\ op = "apply_highpass"
    /\ calls = 2
    /\ stages = <<>>
    /\ gate_env_ = 0
    /\ input # <<>>
    /\ audio # apply_highpass(Coefs, [x1 |-> 0, x2 |-> 0, y1 |-> 0, y2 |-> 0],
                              input).audio

-----------------------------------------------------------------------------
(* Buffers and parameters the VAD functions are applied to                  *)

Tone == 3000            \* amplitude 0.3 of the test tones
MaxSilence == 16        \* longest silent stretch of a generated buffer
MaxTone == 41           \* longest tone of a generated buffer

Run(v, n) == [k \in 1 .. n |-> v]

SilenceLens == {0, 3, MaxSilence}
MidLens == {0, 3, 8, 9, MaxSilence}
ToneLens == {0, 1, MaxTone}

\* silence - tone - silence - tone - silence, every stretch possibly empty
VadBuffers ==
    { Run(0, s1) \o Run(Tone, t1) \o Run(0, s2) \o Run(Tone, t2) \o Run(0, s3) :
        s1 \in SilenceLens, t1 \in ToneLens, s2 \in MidLens,
        t2 \in ToneLens, s3 \in SilenceLens }

SampleRates == {50, 150, 200, 400}
TrimThresholds == {100, 2800}
MinSilenceSamples == {0, 5, 12}
ExtractThresholds == {150, 600}
MinSpeechMs == {0, 20, 50}
PaddingMs == {0, 10}

\* the VAD functions are static: an instance exists but takes no part
InitVad ==
    /\ config_ = DefaultConfig
    /\ sample_rate_ = 16000
    /\ LET r == Constructed(config_, sample_rate_)
       IN  /\ b0_ = r.co.b0 /\ b1_ = r.co.b1 /\ b2_ = r.co.b2
           /\ a1_ = r.co.a1 /\ a2_ = r.co.a2
           /\ x1_ = r.h.x1 /\ x2_ = r.h.x2 /\ y1_ = r.h.y1 /\ y2_ = r.h.y2
           /\ gate_env_ = r.env
    /\ input = <<>>
    /\ stages = <<>>
    /\ calls = 0
    /\ cleared = FALSE
    /\ audio \in VadBuffers
    /\ vad = NoCall
    /\ op = "none"
    /\ AppConstructed

\* trim_silence made to clear the instance's registers on its way
CallTrimSilence_ResetsInstance(threshold, min_silence_samples, sample_rate) ==
    /\ vad = NoCall
    /\ vad' = trim_silence(audio, threshold, min_silence_samples, sample_rate)
    /\ op' = "trim_silence"
    /\ SetHist([x1 |-> 0, x2 |-> 0, y1 |-> 0, y2 |-> 0])
    /\ gate_env_' = 0
    /\ UNCHANGED <<config_, sample_rate_, coeffs, input, audio, stages, calls, cleared, app>>

\* the caller holds one returned vector at a time
CallTrimSilence(threshold, min_silence_samples, sample_rate) ==
    /\ vad = NoCall
    /\ vad' = trim_silence(audio, threshold, min_silence_samples, sample_rate)
    /\ op' = "trim_silence"
    /\ UNCHANGED <<instance, input, audio, stages, calls, cleared, app>>

CallExtractSpeech(threshold, min_speech_ms, padding_ms, sample_rate) ==
    /\ vad = NoCall
    /\ IF ExtractUndefined(audio, sample_rate)
       THEN \E o \in UndefinedOutcomes :
               vad' = [fn |-> "extract_speech", status |-> o,
                       threshold |-> threshold, min_speech_ms |-> min_speech_ms,
                       padding_ms |-> padding_ms, sample_rate |-> sample_rate]
       ELSE vad' = extract_speech(audio, threshold, min_speech_ms, padding_ms,
                                  sample_rate)
    /\ op' = "extract_speech"
    /\ UNCHANGED <<instance, input, audio, stages, calls, cleared, app>>

TrimAction ==
    \E t \in TrimThresholds, m \in MinSilenceSamples, r \in SampleRates :
        CallTrimSilence(t, m, r)

ExtractAction ==
    \E t \in ExtractThresholds, m \in MinSpeechMs, p \in PaddingMs, r \in SampleRates :
        CallExtractSpeech(t, m, p, r)

\* the returned vector goes out of scope
DiscardResult ==
    /\ vad # NoCall
    /\ vad' = NoCall
    /\ op' = "none"
    /\ UNCHANGED <<instance, input, audio, stages, calls, cleared, app>>

NextVad == TrimAction \/ ExtractAction \/ DiscardResult

SpecVad == InitVad /\ [][NextVad]_vars

-----------------------------------------------------------------------------
(* Claims about the VAD functions, checked under SpecVad                    *)

TrimReturned == vad.fn = "trim_silence" /\ vad.status = "returned"
ExtractReturned == vad.fn = "extract_speech" /\ vad.status = "returned"

\* C1: for a non-empty buffer and min_silence_samples >= 0, trim_silence
\* returns the whole input or the slice audio[start, end) with start < end
\* and end - start >= sample_rate / 10, and never an empty vector
C1_TrimNeverDegenerate ==
    (TrimReturned /\ audio # <<>>) =>
        /\ vad.out # <<>>
        /\ \/ vad.out = audio
           \/ /\ 0 <= vad.start_idx
              /\ vad.start_idx < vad.end_idx
              /\ vad.end_idx <= Len(audio)
              /\ vad.end_idx - vad.start_idx >= vad.sample_rate \div 10
              /\ vad.out = Slice(audio, vad.start_idx, vad.end_idx)

\* a proper slice was returned
C1_Witness ==
    /\ TrimReturned
    /\ vad.trimmed
    /\ Len(vad.out) < Len(audio)
    /\ vad.start_idx > 0
    /\ vad.end_idx < Len(audio)

\* C2: for a non-empty buffer extract_speech returns a non-empty buffer, and
\* when no detected run reaches the minimum duration (or the envelope is
\* empty, or nothing was copied) it returns the input unchanged
C2_ExtractFallsBack ==
    (ExtractReturned /\ audio # <<>>) =>
        /\ vad.out # <<>>
        /\ ( \/ vad.energy = <<>>
             \/ \A k \in 1 .. Len(vad.runs) :
                    vad.runs[k].end - vad.runs[k].start
                        < (vad.min_speech_ms * vad.sample_rate)
                              \div (1000 * vad.hop_size)
             \/ Concat(audio, vad.ranges, 1) = <<>> )
           => vad.out = audio

\* runs were detected, all of them too short, and the input came back
C2_Witness ==
    /\ ExtractReturned
    /\ vad.runs # <<>>
    /\ vad.segments = <<>>
    /\ vad.out = audio

\* C4: the detector enters speech at frame i only if the smoothed energies of
\* frames i-1 and i both exceed the threshold
C4_EnterNeedsTwoConsecutive ==
    ExtractReturned =>
        \A k \in 1 .. Len(vad.entered) :
            LET i == vad.entered[k]
            IN  /\ i >= 1
                /\ vad.energy[i] > vad.threshold
                /\ vad.energy[i + 1] > vad.threshold

\* C5: a segment is closed at frame i only if frames i-2, i-1 and i are all at
\* or below the threshold, so a dip of one or two frames inside a run neither
\* ends nor splits it
C5_ExitNeedsThreeConsecutive ==
    ExtractReturned =>
        /\ \A k \in 1 .. Len(vad.closed) :
               LET i == vad.closed[k]
               IN  /\ i >= 2
                   /\ \A j \in i - 2 .. i : vad.energy[j + 1] <= vad.threshold
        /\ \A k \in 1 .. Len(vad.runs) :
               \A j \in vad.runs[k].start + 2 .. vad.runs[k].end - 1 :
                   \E d \in 0 .. 2 : vad.energy[j - d + 1] > vad.threshold

\* a run that contains a below-threshold frame was closed by silence
C5_Witness ==
    /\ ExtractReturned
    /\ vad.closed # <<>>
    /\ \E j \in vad.runs[1].start + 1 .. vad.runs[1].end - 3 :
           vad.energy[j + 1] <= vad.threshold

\* C6: a detected run [start, end) is kept if and only if
\* end - start >= (min_speech_ms * sample_rate) / (1000 * hop_size), whether
\* silence closed it or it was still open at the last frame
C6_KeptIffLongEnough ==
    (ExtractReturned /\ vad.energy # <<>>) =>
        LET min_frames == (vad.min_speech_ms * vad.sample_rate)
                              \div (1000 * vad.hop_size)
            Long(r) == r.end - r.start >= min_frames
        IN  vad.segments = SelectSeq(vad.runs, Long)

\* one run was dropped, and a run open at the last frame was kept
C6_Witness ==
    /\ ExtractReturned
    /\ Len(vad.runs) = 2
    /\ Len(vad.segments) = 1
    /\ Len(vad.closed) = 1
    /\ vad.segments[1].end = Len(vad.energy)

\* C7: the merged segments are in increasing order and do not overlap: each
\* starts strictly after the end of the one before it
C7_MergedDisjoint ==
    ExtractReturned =>
        /\ \A k \in 1 .. Len(vad.merged) : vad.merged[k].start <= vad.merged[k].end
        /\ \A k \in 1 .. Len(vad.merged) - 1 :
               vad.merged[k + 1].start > vad.merged[k].end

\* two kept segments were merged into one, and two stayed apart
C7_Witness ==
    /\ ExtractReturned
    /\ Len(vad.segments) = 2
    /\ Len(vad.merged) = 1
    /\ vad.padding_frames > 0

\* the number of silent (zero) samples at the start of a buffer
RECURSIVE LeadingSilence(_)
LeadingSilence(a) ==
    IF a = <<>> \/ Head(a) # 0 THEN 0 ELSE 1 + LeadingSilence(Tail(a))

\* the number of silent (zero) samples at the end of a buffer
RECURSIVE TrailingSilence(_)
TrailingSilence(a) ==
    IF a = <<>> \/ a[Len(a)] # 0 THEN 0
    ELSE 1 + TrailingSilence(SubSeq(a, 1, Len(a) - 1))

\* the buffer is silence, one run of at least sample_rate / 10 samples in
\* which every analysis window is above the threshold, then silence
SingleLoudRun(a, threshold, window_size, sample_rate) ==
    LET from == LeadingSilence(a)
        to == Len(a) - TrailingSilence(a)
    IN  /\ to - from >= sample_rate \div 10
        /\ to - from >= window_size
        /\ \A lo \in from .. to - window_size :
               WindowRms(a, lo, lo + window_size, window_size) > threshold

\* C13: for silence, a run of at least sample_rate / 10 samples whose every
\* 10 ms window is above the threshold, then silence, and
\* min_silence_samples >= window_size, trim_silence returns a slice holding
\* the whole run with at most min_silence_samples / 2 + window_size silent
\* samples on each side, shorter than the input when either silence is
\* longer than that margin
C13_TrimKeepsRun ==
    ( /\ TrimReturned
      /\ vad.min_silence_samples >= vad.window_size
      /\ SingleLoudRun(audio, vad.threshold, vad.window_size, vad.sample_rate) ) =>
        LET from == LeadingSilence(audio)
            to == Len(audio) - TrailingSilence(audio)
            margin == vad.min_silence_samples \div 2 + vad.window_size
        IN  /\ vad.out = Slice(audio, vad.start_idx, vad.end_idx)
            /\ vad.start_idx <= from
            /\ to <= vad.end_idx
            /\ from - vad.start_idx <= margin
            /\ vad.end_idx - to <= margin
            /\ (from > margin \/ Len(audio) - to > margin)
                   => Len(vad.out) < Len(audio)

\* silence longer than the margin was cut on both sides of a run that does
\* not start on the scan grid
C13_Witness ==
    /\ TrimReturned
    /\ vad.min_silence_samples >= vad.window_size
    /\ vad.window_size = 4
    /\ SingleLoudRun(audio, vad.threshold, vad.window_size, vad.sample_rate)
    /\ LeadingSilence(audio) % 2 = 1
    /\ vad.start_idx > 0
    /\ vad.end_idx < Len(audio)

\* the buffer read as silence, speech, silence, speech, silence: the lengths
\* of the five stretches, or none when it is not of that shape
FiveStretches(a) ==
    LET s1 == LeadingSilence(a)
        s3 == TrailingSilence(a)
        core == IF s1 + s3 >= Len(a) THEN <<>> ELSE SubSeq(a, s1 + 1, Len(a) - s3)
        zeros == { k \in 1 .. Len(core) : core[k] = 0 }
    IN  IF zeros = {} THEN [ok |-> FALSE]
        ELSE LET lo == CHOOSE k \in zeros : \A m \in zeros : k <= m
                 hi == CHOOSE k \in zeros : \A m \in zeros : k >= m
             IN  [ok |-> zeros = lo .. hi, s1 |-> s1, t1 |-> lo - 1,
                  s2 |-> hi - lo + 1, t2 |-> Len(core) - hi, s3 |-> s3]

\* the energy frames whose analysis window holds a sample of [from, to)
FramesOver(from, to, frames, hop_size, window_size) ==
    { f \in 0 .. frames - 1 : f * hop_size < to /\ f * hop_size + window_size > from }

\* [from, to) is speech to the detector: at least two frames lie over it and
\* the smoothed energy of each of them is above the threshold
HeardAsSpeech(from, to, energy, threshold, hop_size, window_size) ==
    LET over == FramesOver(from, to, Len(energy), hop_size, window_size)
    IN  /\ Cardinality(over) >= 2
        /\ \A f \in over : energy[f + 1] > threshold

\* the precondition of C14 on the call that returned
TwoIslands ==
    /\ ExtractReturned
    /\ vad.energy # <<>>
    /\ LET q == FiveStretches(audio)
       IN  /\ q.ok
           /\ q.t1 * 1000 >= vad.min_speech_ms * vad.sample_rate
           /\ q.t2 * 1000 >= vad.min_speech_ms * vad.sample_rate
           /\ HeardAsSpeech(q.s1, q.s1 + q.t1, vad.energy, vad.threshold,
                            vad.hop_size, vad.window_size)
           /\ HeardAsSpeech(q.s1 + q.t1 + q.s2, Len(audio) - q.s3, vad.energy,
                            vad.threshold, vad.hop_size, vad.window_size)
           /\ q.s2 > 2 * vad.padding_frames * vad.hop_size + 11 * vad.hop_size

\* C14: for silence, speech, silence, speech, silence with each speech run at
\* least min_speech_ms long and a middle silence longer than twice the
\* padding plus eleven hops (five of hysteresis, four of smoothing, two of
\* window), extract_speech copies two separate ranges, each holding one whole
\* speech run, and returns a buffer shorter than the input and longer than
\* either run
C14_BothIslandsKept ==
    TwoIslands =>
        LET q == FiveStretches(audio)
        IN  /\ Len(vad.ranges) = 2
            /\ vad.ranges[1].from <= q.s1
            /\ q.s1 + q.t1 <= vad.ranges[1].to
            /\ vad.ranges[1].to < vad.ranges[2].from
            /\ vad.ranges[2].from <= q.s1 + q.t1 + q.s2
            /\ Len(audio) - q.s3 <= vad.ranges[2].to
            /\ Len(vad.out) < Len(audio)
            /\ Len(vad.out) > q.t1
            /\ Len(vad.out) > q.t2

\* both islands were kept with padding around them and silence was removed
\* before, between and after them
C14_Witness ==
    /\ TwoIslands
    /\ vad.padding_frames > 0
    /\ vad.min_speech_frames > 0
    /\ Len(vad.ranges) = 2
    /\ vad.ranges[1].from > 0
    /\ vad.ranges[2].to < Len(audio)

\* the starts of all windows of window_size samples that fit in the buffer
WindowStarts(a, window_size) == 0 .. Len(a) - window_size

\* no window of the buffer has a mean square above threshold^2
NoWindowAbove(a, window_size, threshold) ==
    \A lo \in WindowStarts(a, window_size) :
        SumSq(a, lo, lo + window_size) <= window_size * threshold * threshold

\* C17: when no analysis window of the buffer has RMS above the threshold,
\* trim_silence returns its input unchanged, whatever the buffer's length
C17_SilenceComesBack ==
    ( /\ TrimReturned
      /\ NoWindowAbove(audio, vad.window_size, vad.threshold) ) =>
        /\ vad.out = audio
        /\ Len(vad.out) = Len(audio)

\* a buffer of several windows, not all zero, and shorter than 100 ms came
\* back whole
C17_Witness ==
    /\ TrimReturned
    /\ NoWindowAbove(audio, vad.window_size, vad.threshold)
    /\ Len(audio) > 2 * vad.window_size
    /\ Len(audio) < vad.sample_rate \div 10
    /\ \E k \in 1 .. Len(audio) : audio[k] # 0
    /\ vad.out = audio

\* C18: when every analysis window of the buffer has RMS above the
\* threshold, trim_silence returns the whole input, with start index 0 and
\* end index the input's length
C18_LoudComesBack ==
    ( /\ TrimReturned
      /\ audio # <<>>
      /\ \A lo \in WindowStarts(audio, vad.window_size) :
             WindowRms(audio, lo, lo + vad.window_size, vad.window_size)
                 > vad.threshold ) =>
        /\ vad.out = audio
        /\ vad.start_idx = 0
        /\ vad.end_idx = Len(audio)

\* a loud buffer of more than 100 ms went through both scans and the slice
\* taken is the whole buffer
C18_Witness ==
    /\ TrimReturned
    /\ vad.trimmed
    /\ Len(audio) > vad.sample_rate \div 10
    /\ vad.min_silence_samples > 0
    /\ \A lo \in WindowStarts(audio, vad.window_size) :
           WindowRms(audio, lo, lo + vad.window_size, vad.window_size)
               > vad.threshold
    /\ vad.start_idx = 0
    /\ vad.end_idx = Len(audio)

\* C19: every kept segment [s, e) is widened to [max(s - p, 0), min(e + p, F)]
\* before merging, with p = (padding_ms * sample_rate) / (1000 * hop_size)
\* and F the number of energy frames: each merged segment starts at the
\* padded start of a kept segment and ends at the padded end of one, covers
\* the padded segments it absorbed, and stays inside [0, F]
C19_PaddedAndClamped ==
    (ExtractReturned /\ vad.segments # <<>>) =>
        LET p == (vad.padding_ms * vad.sample_rate) \div (1000 * vad.hop_size)
            F == Len(vad.energy)
            Lo(k) == Max(vad.segments[k].start - p, 0)
            Hi(k) == Min(vad.segments[k].end + p, F)
            Kept == 1 .. Len(vad.segments)
            Merged == 1 .. Len(vad.merged)
        IN  /\ vad.padding_frames = p
            /\ \A m \in Merged :
                   /\ 0 <= vad.merged[m].start
                   /\ vad.merged[m].start <= vad.merged[m].end
                   /\ vad.merged[m].end <= F
                   /\ \E k \in Kept : vad.merged[m].start = Lo(k)
                   /\ \E k \in Kept : vad.merged[m].end = Hi(k)
            /\ \A k \in Kept :
                   \E m \in Merged :
                       vad.merged[m].start <= Lo(k) /\ Hi(k) <= vad.merged[m].end
            /\ vad.merged[1].start = Lo(1)
            /\ vad.merged[Len(vad.merged)].end = Hi(Len(vad.segments))

\* the padding was cut short at frame 0 and at the last frame, and widened
\* another segment by its full amount
C19_Witness ==
    /\ ExtractReturned
    /\ Len(vad.segments) = 2
    /\ Len(vad.merged) = 2
    /\ vad.padding_frames > 0
    /\ vad.segments[1].start < vad.padding_frames
    /\ vad.merged[1].start = 0
    /\ vad.merged[1].end = vad.segments[1].end + vad.padding_frames
    /\ vad.segments[2].end + vad.padding_frames > Len(vad.energy)
    /\ vad.merged[2].end = Len(vad.energy)

\* C23: trim_silence and extract_speech return a buffer for every finite
\* input, every threshold and every sample rate >= 1
C23_VadTerminates ==
    vad.fn \in {"trim_silence", "extract_speech"} => vad.status = "returned"

\* C26: the sample ranges extract_speech copies are in increasing order and
\* pairwise disjoint, so no input sample is copied twice and the output is
\* never longer than the input
C26_RangesDisjoint ==
    ExtractReturned =>
        /\ \A k \in 1 .. Len(vad.ranges) : vad.ranges[k].from <= vad.ranges[k].to
        /\ \A k \in 1 .. Len(vad.ranges) - 1 :
               vad.ranges[k].to <= vad.ranges[k + 1].from
        /\ Len(vad.out) <= Len(audio)

\* the window starts the forward scan can visit: multiples of the hop
ScanGrid(a, window_size) ==
    { i \in WindowStarts(a, window_size) :
        IF window_size \div 2 = 0 THEN i = 0 ELSE i % (window_size \div 2) = 0 }

\* C27: when trim_silence returns a trimmed slice [start, end), every window
\* of the forward scan grid whose RMS exceeds the threshold lies entirely
\* inside [start, end)
C27_LoudWindowsKept ==
    (TrimReturned /\ vad.trimmed) =>
        \A i \in ScanGrid(audio, vad.window_size) :
            SumSq(audio, i, i + vad.window_size)
                    > vad.window_size * vad.threshold * vad.threshold
                => (vad.start_idx <= i /\ i + vad.window_size <= vad.end_idx)

-----------------------------------------------------------------------------
(* Buffers of graded level for the two gain stages                          *)

MaxLead == 36           \* longest silent lead before a single loud sample

LevelSamples ==
    {0, 1, 9, 10, 100, 849, 850, 900, 1234, -3000, 8000, 8999, 9000, -10000}

\* every buffer of up to MaxBuf graded samples, single samples after a
\* silent lead, and pairs after one silent sample
LevelBuffers ==
    UNION { [1 .. n -> LevelSamples] : n \in 0 .. MaxBuf }
        \cup { Run(0, n) \o <<v>> : n \in {MaxLead \div 2, MaxLead}, v \in LevelSamples }
        \cup { <<0, v, w>> : v \in LevelSamples, w \in LevelSamples }

\* the default configuration, one with the target peak at full scale and
\* the alternative parameter set
LevelConfigs ==
    {DefaultConfig, [DefaultConfig EXCEPT !.target_peak = Unit], AltParams}

InitLevels ==
    /\ config_ \in LevelConfigs
    /\ sample_rate_ \in InstanceRates
    /\ LET r == Constructed(config_, sample_rate_)
       IN  /\ b0_ = r.co.b0 /\ b1_ = r.co.b1 /\ b2_ = r.co.b2
           /\ a1_ = r.co.a1 /\ a2_ = r.co.a2
           /\ x1_ = r.h.x1 /\ x2_ = r.h.x2 /\ y1_ = r.h.y1 /\ y2_ = r.h.y2
           /\ gate_env_ = r.env
    /\ input = <<>>
    /\ audio = <<>>
    /\ stages = <<>>
    /\ calls = 0
    /\ cleared = FALSE
    /\ vad = NoCall
    /\ op = "construct"
    /\ AppConstructed

\* the two stages keep no state, so each buffer goes to a fresh instance
NormalizationLevels ==
    calls = 0 /\ \E buf \in LevelBuffers : ApplyNormalization(buf)
AgcLevels ==
    calls = 0 /\ \E buf \in LevelBuffers : ApplyAgc(buf)

NextLevels == NormalizationLevels \/ AgcLevels

SpecLevels == InitLevels /\ [][NextLevels]_vars

-----------------------------------------------------------------------------
(* Claims about the gain stages, checked under SpecLevels                   *)

\* apply_normalization ran with the default target 0.9 on a buffer whose
\* peak is at least 0.001 and below the target
NormalizedBelowTarget ==
    /\ op = "apply_normalization"
    /\ config_.target_peak = DefaultConfig.target_peak
    /\ Peak(input, 1) >= PeakFloor
    /\ Peak(input, 1) < config_.target_peak

\* C15 as stated: for a peak of at least 0.001 and below the target 0.9,
\* the peak after apply_normalization lies in [0.85, 1.0]
C15_PeakNearTarget ==
    NormalizedBelowTarget =>
        /\ Peak(audio, 1) >= 8500
        /\ Peak(audio, 1) <= Unit

\* C15 amended: for a peak of at least 0.001 and below the target 0.9, the
\* peak after apply_normalization is the target (to the last digit) when
\* ten times the peak reaches it and ten times the peak otherwise, so it
\* lies in [0.85, 1.0] exactly when the peak before is at least 0.085
C15_PeakNearTargetOrTenfold ==
    NormalizedBelowTarget =>
        LET before == Peak(input, 1)
            after == Peak(audio, 1)
        IN  /\ IF 10 * before >= config_.target_peak
               THEN Abs(after - config_.target_peak) <= 1
               ELSE after = 10 * before
            /\ (after >= 8500 /\ after <= Unit) <=> before >= 850

\* a peak of 0.01 came out at 0.1, below 0.85
C15_Witness ==
    /\ NormalizedBelowTarget
    /\ Peak(input, 1) = 100
    /\ Peak(audio, 1) = 1000

\* apply_agc ran with the default AGC settings on a buffer whose RMS is at
\* least 0.0001 and below the target RMS
AgcOnQuiet ==
    /\ op = "apply_agc"
    /\ config_ = DefaultConfig
    /\ input # <<>>
    /\ BufferRms(input) >= RmsFloor
    /\ BufferRms(input) < config_.agc_target_rms

\* C16 as stated: for a buffer whose RMS is at least 0.0001 and below the
\* target RMS, the RMS after apply_agc is strictly greater than before
C16_QuietGetsLouder ==
    AgcOnQuiet => BufferRms(audio) > BufferRms(input)

\* C16 amended: for a buffer whose RMS is at least 0.0001 and below the
\* target RMS and whose samples all stay at or below 0.9 after the gain,
\* every sample is multiplied by the gain, which exceeds 1, no sample
\* shrinks and the mean square after apply_agc is strictly greater than
\* before
C16_QuietGetsLouderBelowKnee ==
    ( /\ AgcOnQuiet
      /\ FMul(Peak(input, 1), AgcGain(config_, BufferRms(input))) <= Knee ) =>
        LET gain == AgcGain(config_, BufferRms(input))
        IN  /\ gain > Unit
            /\ \A i \in 1 .. Len(input) :
                   audio[i] = FMul(input[i], gain) /\ Abs(audio[i]) >= Abs(input[i])
            /\ SumSq(audio, 0, Len(audio)) > SumSq(input, 0, Len(input))
            /\ BufferRms(audio) >= BufferRms(input)

\* a quiet buffer was raised with the gain at its upper limit, and one
\* nearer the target with a smaller gain
C16_Witness ==
    /\ AgcOnQuiet
    /\ AgcGain(config_, BufferRms(input)) \in Unit + 1 .. 10 * Unit - 1
    /\ FMul(Peak(input, 1), AgcGain(config_, BufferRms(input))) <= Knee
    /\ BufferRms(audio) > BufferRms(input)
    /\ Len(input) > MaxBuf

\* C20: for a peak of at least 0.001 and target_peak <= 1, apply_normalization
\* multiplies every sample by the one gain min(target_peak / peak, 10): the
\* clamp changes nothing, the peak of the result is the target (to the last
\* digit) unless the cap holds it at ten times the old peak, and samples
\* keep their signs and their order of magnitude
C20_UniformGain ==
    ( /\ op = "apply_normalization"
      /\ config_.target_peak <= Unit
      /\ Peak(input, 1) >= PeakFloor ) =>
        LET peak == Peak(input, 1)
            uncapped == FDiv(config_.target_peak, peak)
            gain == IF uncapped < 10 * Unit THEN uncapped ELSE 10 * Unit
        IN  /\ Len(audio) = Len(input)
            /\ \A i \in 1 .. Len(input) : audio[i] = FMul(input[i], gain)
            /\ IF uncapped <= 10 * Unit
               THEN Abs(Peak(audio, 1) - config_.target_peak) <= 1
               ELSE Peak(audio, 1) = 10 * peak
            /\ \A i, j \in 1 .. Len(input) :
                   /\ Abs(input[i]) <= Abs(input[j]) => Abs(audio[i]) <= Abs(audio[j])
                   /\ input[i] * audio[i] >= 0

\* two samples of different sign and size were scaled by a gain that is
\* neither 1 nor the cap, the larger one reaching the target
C20_Witness ==
    /\ op = "apply_normalization"
    /\ config_.target_peak <= Unit
    /\ Len(input) = 2
    /\ input[1] < 0 /\ input[2] > 0
    /\ Abs(input[1]) > Abs(input[2])
    /\ Peak(audio, 1) = config_.target_peak
    /\ audio[1] # input[1]
    /\ 10 * Abs(input[1]) > config_.target_peak

\* C29: within one buffer apply_agc preserves the order of magnitudes: a
\* sample no larger than another before the stage is no larger after it
C29_AgcKeepsOrder ==
    op = "apply_agc" =>
        \A i, j \in 1 .. Len(input) :
            Abs(input[i]) <= Abs(input[j]) => Abs(audio[i]) <= Abs(audio[j])

-----------------------------------------------------------------------------
(* The VAD functions called around work on the instance                     *)

\* buffers the VAD functions are given while the instance is in use
PureBuffers ==
    { Run(0, s1) \o Run(Tone, t) \o Run(0, s3) :
        s1 \in {0, MaxSilence}, t \in {1, MaxTone}, s3 \in {0, MaxSilence} }

\* other recordings the instance processes in the meantime
OtherBuffers == { <<Unit>>, <<-3000, Unit>> }

InitPure ==
    /\ config_ = DefaultConfig
    /\ sample_rate_ = 16000
    /\ LET r == Constructed(config_, sample_rate_)
       IN  /\ b0_ = r.co.b0 /\ b1_ = r.co.b1 /\ b2_ = r.co.b2
           /\ a1_ = r.co.a1 /\ a2_ = r.co.a2
           /\ x1_ = r.h.x1 /\ x2_ = r.h.x2 /\ y1_ = r.h.y1 /\ y2_ = r.h.y2
           /\ gate_env_ = r.env
    /\ input = <<>>
    /\ stages = <<>>
    /\ calls = 0
    /\ cleared = FALSE
    /\ audio \in PureBuffers
    /\ vad = NoCall
    /\ op = "none"
    /\ AppConstructed

\* process() on another vector: the instance's registers move, the buffer
\* held for the VAD functions is not involved
ProcessOther(buf) ==
    /\ calls < MaxCalls
    /\ LET r == process(config_, sample_rate_, Coefs, Hist, gate_env_, buf)
       IN  /\ SetHist(r.h)
           /\ gate_env_' = r.env
           /\ stages' = r.log
    /\ input' = buf
    /\ calls' = calls + 1
    /\ cleared' = FALSE
    /\ op' = "process"
    /\ UNCHANGED <<config_, sample_rate_, coeffs, audio, vad, app>>

\* reset() while a buffer is held for the VAD functions
ResetOther ==
    /\ calls > 0
    /\ LET r == reset(config_, sample_rate_)
       IN  SetHist(r.h) /\ gate_env_' = r.env /\ SetCoefs(r.co)
    /\ input' = <<>> /\ stages' = <<>>
    /\ calls' = 0
    /\ cleared' = (<<x1_, x2_, y1_, y2_, gate_env_>> # <<0, 0, 0, 0, 0>>)
    /\ op' = "reset"
    /\ UNCHANGED <<config_, sample_rate_, audio, vad, app>>

\* the call whose result is held, made again with the same arguments
TrimAgain ==
    /\ vad.fn = "trim_silence"
    /\ vad.status = "returned"
    /\ vad' = [again |-> TRUE]
                 @@ trim_silence(audio, vad.threshold, vad.min_silence_samples,
                                 vad.sample_rate)
    /\ op' = "trim_silence"
    /\ UNCHANGED <<instance, input, audio, stages, calls, cleared, app>>

ExtractAgain ==
    /\ vad.fn = "extract_speech"
    /\ vad.status = "returned"
    /\ vad' = [again |-> TRUE]
                 @@ extract_speech(audio, vad.threshold, vad.min_speech_ms,
                                   vad.padding_ms, vad.sample_rate)
    /\ op' = "extract_speech"
    /\ UNCHANGED <<instance, input, audio, stages, calls, cleared, app>>

ProcessOtherCall == \E buf \in OtherBuffers : ProcessOther(buf)

NextPure ==
    \/ TrimAction
    \/ ExtractAction
    \/ TrimAgain
    \/ ExtractAgain
    \/ DiscardResult
    \/ ProcessOtherCall
    \/ ResetOther

SpecPure == InitPure /\ [][NextPure]_vars

-----------------------------------------------------------------------------
(* The noise gate under several thresholds                                  *)

\* the default threshold 0.02, no threshold at all, and one above most
\* samples
GateThresholds == {DefaultConfig.noise_gate_threshold, 0, 5000}

GateConfigs ==
    { [ DefaultConfig EXCEPT !.noise_gate_threshold = t ] : t \in GateThresholds }

InitGate ==
    /\ config_ \in GateConfigs
    /\ sample_rate_ \in InstanceRates
    /\ LET r == Constructed(config_, sample_rate_)
       IN  /\ b0_ = r.co.b0 /\ b1_ = r.co.b1 /\ b2_ = r.co.b2
           /\ a1_ = r.co.a1 /\ a2_ = r.co.a2
           /\ x1_ = r.h.x1 /\ x2_ = r.h.x2 /\ y1_ = r.h.y1 /\ y2_ = r.h.y2
           /\ gate_env_ = r.env
    /\ input = <<>>
    /\ audio = <<>>
    /\ stages = <<>>
    /\ calls = 0
    /\ cleared = FALSE
    /\ vad = NoCall
    /\ op = "construct"
    /\ AppConstructed

NextGate == NoiseGateCall \/ Reset

SpecGate == InitGate /\ [][NextGate]_vars

\* C28: apply_noise_gate never amplifies a sample and never turns its sign:
\* every output sample lies between 0 and the input sample, and with a
\* threshold of 0 the buffer comes back as it was
C28_GateOnlyAttenuates ==
    op = "apply_noise_gate" =>
        /\ Len(audio) = Len(input)
        /\ \A i \in 1 .. Len(input) :
               /\ Abs(audio[i]) <= Abs(input[i])
               /\ audio[i] * input[i] >= 0
        /\ config_.noise_gate_threshold = 0 => audio = input

\* with the envelope left by an earlier buffer, a negative sample was
\* attenuated but not muted
C28_Witness ==
    /\ op = "apply_noise_gate"
    /\ calls = 2
    /\ config_.noise_gate_threshold > 0
    /\ \E i \in 1 .. Len(input) :
           input[i] < audio[i] /\ audio[i] < 0

\* with a threshold of 0 a buffer went through the gate from a zero envelope
C28_ZeroThresholdReached ==
    /\ op = "apply_noise_gate"
    /\ config_.noise_gate_threshold = 0
    /\ calls = 1
    /\ input # <<>>
    /\ input[1] = 0

-----------------------------------------------------------------------------
(* App: the hotkey-driven record cycle (src/src/app.cpp).  The hotkey       *)
(* listener thread calls on_hotkey for one event at a time, so a handler is *)
(* never entered while another one runs; the tray's toggle and the capture  *)
(* callback run on other threads and interleave with it.  stop_recording is *)
(* taken in two steps, cut where it has stored Transcribing and fetched the  *)
(* captured samples.                                                        *)

MIN_RECORDING_INTERVAL_MS == 100

\* milliseconds since last_recording_end_ at a key press
Elapsed == {MIN_RECORDING_INTERVAL_MS - 1, MIN_RECORDING_INTERVAL_MS}

\* start_recording gets past its two early returns
StartRuns(state, last_end, elapsed) ==
    /\ state = "Idle"
    /\ ~(elapsed < MIN_RECORDING_INTERVAL_MS /\ last_end # "epoch")

\* stop_recording leaving without storing Idle when nothing was captured
StateOnReturn_EmptyStuck(audio_data) ==
    IF audio_data = <<>> THEN "Transcribing" ELSE "Idle"

\* the state stop_recording stores before it returns, on either path
StateOnReturn(audio_data) == "Idle"

\* the preprocessing of stop_recording without the reset()
Preprocess_NoReset(cfg, sample_rate, co, h, env, a) ==
    LET r == process(cfg, sample_rate, co, h, env, a)
    IN  [audio |-> r.audio, log |-> r.log, h |-> r.h, env |-> r.env, co |-> co,
         dirty |-> (<<r.h.x1, r.h.x2, r.h.y1, r.h.y2, r.env>> # <<0, 0, 0, 0, 0>>)]

\* audio_processor_->process(audio_data); audio_processor_->reset();
Preprocess(cfg, sample_rate, co, h, env, a) ==
    LET r == process(cfg, sample_rate, co, h, env, a)
        z == reset(cfg, sample_rate)
    IN  [audio |-> r.audio, log |-> r.log, h |-> z.h, env |-> z.env, co |-> z.co,
         dirty |-> (<<r.h.x1, r.h.x2, r.h.y1, r.h.y2, r.env>> # <<0, 0, 0, 0, 0>>)]

\* what transcribe() can return: failure, success with no text, success with text
Transcriptions == {"failed", "empty", "text"}

\* App::initialize: the processor exists when config_.audio_preprocessing is
\* set, built with the default configuration at config_.sample_rate
InitApp ==
    /\ config_ = DefaultConfig
    /\ sample_rate_ \in InstanceRates
    /\ LET r == Constructed(config_, sample_rate_)
       IN  /\ b0_ = r.co.b0 /\ b1_ = r.co.b1 /\ b2_ = r.co.b2
           /\ a1_ = r.co.a1 /\ a2_ = r.co.a2
           /\ x1_ = r.h.x1 /\ x2_ = r.h.x2 /\ y1_ = r.h.y1 /\ y2_ = r.h.y2
           /\ gate_env_ = r.env
    /\ input = <<>>
    /\ audio = <<>>
    /\ stages = <<>>
    /\ calls = 0
    /\ cleared = FALSE
    /\ vad = NoCall
    /\ op = "initialize"
    /\ state_ = "Idle"
    /\ enabled_ = TRUE
    /\ audio_processor_ \in BOOLEAN
    /\ last_recording_end_ = "epoch"
    /\ recording_ = FALSE
    /\ audio_buffer_ = <<>>
    /\ transcription = "none"
    /\ starts = 0
    /\ earlier = FALSE

\* AudioCapture::start_recording: refuses while recording, else clears the
\* buffer and records if the stream starts
AudioStart(ok) ==
    IF recording_
    THEN UNCHANGED <<recording_, audio_buffer_>>
    ELSE audio_buffer_' = <<>> /\ recording_' = ok

\* App::start_recording
StartRecording(elapsed, ok) ==
    /\ op' = "start_recording"
    /\ IF StartRuns(state_, last_recording_end_, elapsed)
       THEN /\ state_' = "Recording"
            /\ AudioStart(ok)
            /\ starts' = starts + 1
       ELSE UNCHANGED <<state_, recording_, audio_buffer_, starts>>
    /\ UNCHANGED <<instance, input, audio, stages, calls, cleared, vad, enabled_,
                   audio_processor_, last_recording_end_, transcription, earlier>>

\* App::stop_recording up to the copy of the captured samples (audio_data)
StopRecording ==
    /\ op' = "stop_recording"
    /\ IF state_ = "Recording"
       THEN /\ recording_' = FALSE
            /\ state_' = "Transcribing"
            /\ input' = audio_buffer_
            /\ audio' = audio_buffer_
            /\ stages' = <<>>
       ELSE UNCHANGED <<recording_, state_, input, audio, stages>>
    /\ UNCHANGED <<instance, calls, cleared, vad, enabled_, audio_processor_,
                   last_recording_end_, audio_buffer_, transcription, starts, earlier>>

\* the hotkey is ignored while the tray has it disabled
HotkeyIgnored ==
    /\ op' = "on_hotkey"
    /\ UNCHANGED <<instance, input, audio, stages, calls, cleared, vad, app>>

\* App::on_hotkey(pressed), called by the listener thread between two handlers
on_hotkey(pressed, elapsed, ok) ==
    /\ state_ # "Transcribing"
    /\ IF ~enabled_ THEN HotkeyIgnored
       ELSE IF pressed THEN StartRecording(elapsed, ok)
       ELSE StopRecording

HotkeyPressed == \E elapsed \in Elapsed, ok \in BOOLEAN : on_hotkey(TRUE, elapsed, ok)
HotkeyReleased == on_hotkey(FALSE, MIN_RECORDING_INTERVAL_MS, TRUE)

\* the rest of App::stop_recording: the empty-audio return, or preprocessing,
\* transcription, the cooldown timestamp and the store of Idle
FinishStopRecording ==
    /\ state_ = "Transcribing"
    /\ op' = "stop_recording_return"
    /\ state_' = StateOnReturn(audio)
    /\ starts' = 0
    /\ IF audio = <<>>
       THEN UNCHANGED <<instance, audio, stages, cleared, last_recording_end_,
                        transcription, earlier>>
       ELSE /\ IF audio_processor_
               THEN LET r == Preprocess(config_, sample_rate_, Coefs, Hist,
                                        gate_env_, audio)
                    IN  /\ audio' = r.audio
                        /\ stages' = r.log
                        /\ SetHist(r.h)
                        /\ gate_env_' = r.env
                        /\ SetCoefs(r.co)
                        /\ cleared' = r.dirty
                        /\ earlier' = (earlier \/ cleared)
               ELSE UNCHANGED <<coeffs, history, gate_env_, audio, stages,
                                cleared, earlier>>
            /\ transcription' \in Transcriptions
            /\ last_recording_end_' = "set"
            /\ UNCHANGED <<config_, sample_rate_>>
    /\ UNCHANGED <<input, calls, vad, enabled_, audio_processor_, recording_,
                   audio_buffer_>>

\* AudioCapture::pa_callback: while recording, the stream appends what it
\* captured (one sample stands for a block of frames)
PaCallback ==
    /\ recording_
    /\ Len(audio_buffer_) < MaxBuf
    /\ \E v \in Samples : audio_buffer_' = Append(audio_buffer_, v)
    /\ op' = "pa_callback"
    /\ UNCHANGED <<instance, input, audio, stages, calls, cleared, vad, state_,
                   enabled_, audio_processor_, last_recording_end_, recording_,
                   transcription, starts, earlier>>

\* the tray's toggle: set_enabled(!enabled)
ToggleEnabled ==
    /\ enabled_' = ~enabled_
    /\ op' = "set_enabled"
    /\ UNCHANGED <<instance, input, audio, stages, calls, cleared, vad, state_,
                   audio_processor_, last_recording_end_, recording_,
                   audio_buffer_, transcription, starts, earlier>>

NextApp ==
    \/ HotkeyPressed
    \/ HotkeyReleased
    \/ FinishStopRecording
    \/ PaCallback
    \/ ToggleEnabled

SpecApp == InitApp /\ [][NextApp]_vars

\* what a processor straight from its constructor makes of a buffer
FreshProcess(a) ==
    LET z == Constructed(config_, sample_rate_)
    IN  process(config_, sample_rate_, z.co, z.h, z.env, a).audio

\* C24: in App every recording is processed by a processor whose biquad
\* history and gate envelope are zero, so the samples handed to the
\* transcriber are what a freshly constructed processor makes of the
\* recording, whatever was recorded before
C24_NoLeakBetweenRecordings ==
    /\ <<x1_, x2_, y1_, y2_, gate_env_>> = <<0, 0, 0, 0, 0>>
    /\ (op = "stop_recording_return" /\ audio_processor_ /\ input # <<>>)
           => audio = FreshProcess(input)

\* a recording was processed after an earlier one had left history or
\* envelope non-zero, and it moved the registers itself
C24_Witness ==
    /\ op = "stop_recording_return"
    /\ audio_processor_
    /\ earlier
    /\ cleared
    /\ input # <<>>
    /\ audio # input

\* C30: the record cycle is a strict state machine: start_recording acts only
\* in Idle and moves to Recording, stop_recording acts only in Recording and
\* moves to Transcribing, every return of a stop_recording that began in
\* Recording leaves the state at Idle (on the empty-audio path and after a
\* transcription alike), Idle is only re-entered from Transcribing, and
\* capture is started at most once per cycle
C30_StrictCycle ==
    [][ /\ (op' = "start_recording" /\ state_ # "Idle")
            => UNCHANGED <<state_, recording_, audio_buffer_, starts>>
        /\ (op' = "start_recording" /\ state_' # state_)
            => (state_ = "Idle" /\ state_' = "Recording")
        /\ (op' = "stop_recording" /\ state_ # "Recording")
            => UNCHANGED <<state_, recording_, audio_buffer_, input, audio>>
        /\ (op' = "stop_recording" /\ state_ = "Recording")
            => state_' = "Transcribing"
        /\ (op' = "stop_recording_return") => state_' = "Idle"
        /\ (state_' = "Transcribing" /\ state_ # "Transcribing")
            => state_ = "Recording"
        /\ (state_' = "Idle" /\ state_ # "Idle")
            => state_ = "Transcribing"
        /\ (state_ = "Transcribing" /\ state_' # "Transcribing")
            => (state_' = "Idle" /\ op' = "stop_recording_return")
        /\ state_' \in {"Idle", "Recording", "Transcribing"}
        /\ starts' <= 1 ]_vars

\* a cycle that captured nothing came back to Idle after one that was
\* transcribed
C30_Witness ==
    /\ op = "stop_recording_return"
    /\ state_ = "Idle"
    /\ input = <<>>
    /\ last_recording_end_ = "set"
    /\ starts = 0

====
